---- MODULE Spec2Model ----
(***************************************************************************)
(* The recipe controller of More-Recipes (server/controllers/recipes.js)   *)
(* as a state machine.  Every request is a chain of callbacks separated by *)
(* asynchronous I/O (multer upload, Sequelize queries); node runs each     *)
(* callback to completion, so one action is one I/O operation taking       *)
(* effect followed by the callback that receives its result.               *)
(***************************************************************************)
EXTENDS Integers, Sequences, FiniteSets, TLC

VARIABLES
  recipes,    \* the Recipes table: stored id -> row
  files,      \* names of the files present under client/<folder>/
  favorites,  \* the Favorites table: sequence of rows, in insertion order
  nextId,     \* next id the Recipes table hands out
  req         \* per request slot: inputs, closure variables, position, output

vars == <<recipes, files, favorites, nextId, req>>

----------------------------------------------------------------------------
(* Bounds *)

NumReq == 2        \* requests issued in one run
MaxFavRows == 2    \* rows the Favorites table grows to

Req == 1..NumReq
Users == {1, 2}
RecipeIds == 1..2  \* ids a request may name: 1 is stored initially

----------------------------------------------------------------------------
(* Values *)

Null == "NULL"                 \* JS null / undefined
Undefined == <<"undefined">>   \* a body field the client did not send

Email(u) == "user" \o ToString(u) \o "@example.com"

\* multer stores each upload under a fresh generated name
UploadName(r) == "up" \o ToString(r)

IsSpace(c) == c = " "

\* param => (param || '').replace(/\s+/g, ' ')
RECURSIVE CollapseSpaces(_)
CollapseSpaces(s) ==
  IF s = <<>> THEN <<>>
  ELSE IF IsSpace(Head(s))
       THEN IF Len(s) > 1 /\ IsSpace(s[2])
            THEN CollapseSpaces(Tail(s))
            ELSE <<" ">> \o CollapseSpaces(Tail(s))
       ELSE <<Head(s)>> \o CollapseSpaces(Tail(s))

trimWhiteSpaces(param) ==
  IF param = Undefined \/ param = <<>> THEN <<>> ELSE CollapseSpaces(param)

\* validate.validateRecipeDetails: an error message, or Null when the
\* required fields are all present
validateRecipeDetails(name, ingredients, direction) ==
  IF name = <<>> \/ name = Undefined THEN "Enter a valid recipe name"
  ELSE IF ingredients = <<>> \/ ingredients = Undefined
       THEN "Enter a valid recipe ingredients"
  ELSE IF direction = <<>> \/ direction = Undefined
       THEN "Enter a valid recipe direction"
  ELSE Null

\* request bodies the clients send
GoodBody ==
  [name |-> <<"a", " ", " ", "b">>, description |-> <<"b">>,
   ingredients |-> <<"a">>, direction |-> <<"b", " ", " ", "a">>]
NoNameBody == [GoodBody EXCEPT !.name = Undefined]
Bodies == {GoodBody, NoNameBody}

\* `recipes/${req.file.filename}`
ImageUrlOf(filename) == "recipes/" \o filename

\* the file a template string `client/${folder}/${imageUrl}` names
PathOf(imageUrl) == IF imageUrl = Null THEN "null" ELSE imageUrl

\* fs.unlink(path, () => {}): the file is gone; a missing file is ignored
unlink(fs, path) == fs \ {path}

\* req.file: no file, an image, or a file the fileFilter refuses
FileKinds == {Null, "image", "text"}

\* req.query of GET /api/v1/recipes
NoQuery ==
  [sort |-> Null, order |-> Null, ingredients |-> Null, recipes |-> Null,
   search |-> Null]
Queries ==
  [sort : {Null, "upvotes"}, order : {Null, "descending", "ascending"},
   ingredients : {Null, "rice"}, recipes : {Null, "jollof"},
   search : {Null, "", "foo"}]
\* the queries the requests of the full specification carry
MainQueries ==
  {NoQuery,
   [NoQuery EXCEPT !.sort = "upvotes", !.order = "descending", !.search = "foo"]}

\* JS truthiness of a query parameter
Truthy(v) == v # Null /\ v # ""

----------------------------------------------------------------------------
(* Request slots *)

Idle ==
  [op |-> "none", pc |-> "idle", user |-> 0, recipeId |-> 0,
   body |-> GoodBody, file |-> Null, query |-> NoQuery, vote |-> Null,
   imageUrl |-> Null, found |-> <<>>, result |-> <<>>, foundUsers |-> <<>>,
   strategies |-> <<>>,
   responses |-> <<>>, notified |-> <<>>, delivery |-> Null,
   \* history of the request, read by the properties only
   storeFailed |-> FALSE, committed |-> FALSE, effects |-> {}]

Response(status, success, message, payload) ==
  [status |-> status, success |-> success, message |-> message,
   recipe |-> payload]

\* res.status(..).json(..)
Send(q, status, success, message, payload) ==
  [q EXCEPT !.responses = Append(@, Response(status, success, message, payload))]

Finish(q) == [q EXCEPT !.pc = "done"]

\* defaultValue of the vote counters of the Recipe model
DefaultVotes == 0

InitialRecipe ==
  [userId |-> 1, name |-> <<"a">>, description |-> <<"a">>,
   ingredients |-> <<"a">>, direction |-> <<"a">>,
   imageUrl |-> "recipes/img1", viewCount |-> 3,
   upvotes |-> 3, downvotes |-> 1]

Init ==
  /\ recipes = (1 :> InitialRecipe)
  /\ files = {"recipes/img1"}
  /\ favorites = <<[userId |-> 2, recipeId |-> 1]>>
  /\ nextId = 2
  /\ req = [r \in Req |-> Idle]

----------------------------------------------------------------------------
(* createRecipe *)

Log(q, e) == [q EXCEPT !.effects = @ \cup {e}]

\* upload(req, res, cb) and its callback up to recipe.create(...)
CreateRecipe(r) ==
  /\ req[r].pc = "idle"
  /\ \E u \in Users, b \in Bodies, f \in FileKinds :
       LET q0 == [Idle EXCEPT !.op = "createRecipe", !.user = u, !.body = b,
                              !.file = f]
           filePath == IF f = "image" THEN ImageUrlOf(UploadName(r)) ELSE "null"
           name == trimWhiteSpaces(b.name)
           ingredients == trimWhiteSpaces(b.ingredients)
           direction == trimWhiteSpaces(b.direction)
           validateRecipeError ==
             validateRecipeDetails(name, ingredients, direction)
       IN IF f = "text"
          THEN /\ req' = [req EXCEPT ![r] =
                    Finish(Send(q0, 400, FALSE, "Only Images are allowed !", <<>>))]
               /\ files' = files
          ELSE LET q1 == IF f = "image" THEN Log(q0, "file added") ELSE q0
               IN /\ files' = IF f = "image" THEN files \cup {filePath} ELSE files
                  /\ req' = [req EXCEPT ![r] =
                       IF validateRecipeError # Null
                       THEN Finish(Send(q1, 400, FALSE, validateRecipeError, <<>>))
                       ELSE [q1 EXCEPT !.pc = "create", !.imageUrl = filePath]]
  /\ UNCHANGED <<recipes, favorites, nextId>>

\* recipe.create(...) settles: .then / .catch
CreateReturned(r) ==
  /\ req[r].pc = "create"
  /\ LET q == req[r]
         row == [userId |-> q.user,
                 name |-> trimWhiteSpaces(q.body.name),
                 description |-> trimWhiteSpaces(q.body.description),
                 ingredients |-> trimWhiteSpaces(q.body.ingredients),
                 direction |-> trimWhiteSpaces(q.body.direction),
                 imageUrl |-> q.imageUrl, viewCount |-> 0,
                 upvotes |-> DefaultVotes, downvotes |-> DefaultVotes]
     IN \E ok \in BOOLEAN :
          IF ok
          THEN /\ recipes' = recipes @@ (nextId :> row)
               /\ nextId' = nextId + 1
               /\ req' = [req EXCEPT ![r] =
                    Finish(Send(Log(q, "record created"), 201, TRUE,
                                "New Recipe created", <<row>>))]
          ELSE /\ req' = [req EXCEPT ![r] =
                    Finish(Send([q EXCEPT !.storeFailed = TRUE], 500, FALSE,
                                "Error Creating Recipe", <<>>))]
               /\ UNCHANGED <<recipes, nextId>>
  /\ UNCHANGED <<files, favorites>>

----------------------------------------------------------------------------
(* modifyRecipe *)

\* recipe.findById(recipeId): <<>> for null, <<row>> for an instance
findById(id) == IF id \in DOMAIN recipes THEN <<recipes[id]>> ELSE <<>>

\* the ownership test left out
IsOwnerUnchecked(recipeFound, userId) == TRUE

\* the ownership test: !(+recipeFound.userId !== +userId)
IsOwner(recipeFound, userId) == recipeFound.userId = userId

\* upload(req, res, cb) and its callback up to recipe.findById(...)
ModifyRecipe(r) ==
  /\ req[r].pc = "idle"
  /\ \E u \in Users, id \in RecipeIds, b \in Bodies, f \in FileKinds :
       LET q0 == [Idle EXCEPT !.op = "modifyRecipe", !.user = u,
                              !.recipeId = id, !.body = b, !.file = f]
           imageUrl == IF f = "image" THEN ImageUrlOf(UploadName(r)) ELSE Null
           name == trimWhiteSpaces(b.name)
           ingredients == trimWhiteSpaces(b.ingredients)
           direction == b.direction
           validateRecipeError ==
             validateRecipeDetails(name, ingredients, direction)
       IN IF f = "text"
          THEN /\ req' = [req EXCEPT ![r] =
                    Finish(Send(q0, 400, FALSE, "Only Images are allowed !", <<>>))]
               /\ files' = files
          ELSE LET q1 == IF f = "image" THEN Log(q0, "file added") ELSE q0
               IN /\ files' = IF f = "image" THEN files \cup {imageUrl} ELSE files
                  /\ req' = [req EXCEPT ![r] =
                       IF validateRecipeError # Null
                       THEN Finish(Send(q1, 400, FALSE, validateRecipeError, <<>>))
                       ELSE [q1 EXCEPT !.pc = "findById", !.imageUrl = imageUrl]]
  /\ UNCHANGED <<recipes, favorites, nextId>>

\* q after fs.unlink of path, given the files present before it
Unlinked(q, path) == IF path \in files THEN Log(q, "file removed") ELSE q

\* recipe.findById(...) settles: the first .then, or the outer .catch
ModifyFound(r) ==
  /\ req[r].pc = "findById"
  /\ req[r].op = "modifyRecipe"
  /\ LET q0 == req[r]
         recipeFound == findById(q0.recipeId)
         q == [q0 EXCEPT !.found = recipeFound]
     IN \E ok \in BOOLEAN :
          IF ~ok
          THEN /\ req' = [req EXCEPT ![r] =
                    Finish(Send([q0 EXCEPT !.storeFailed = TRUE], 500, FALSE,
                                "Error Modifying Recipe", <<>>))]
               /\ files' = files
          ELSE IF recipeFound = <<>>
          THEN /\ req' = [req EXCEPT ![r] =
                    Finish(Send(q, 404, FALSE, "No matching recipe", <<>>))]
               /\ files' = files
          ELSE IF ~IsOwner(recipeFound[1], q.user)
          THEN /\ files' = unlink(files, PathOf(q.imageUrl))
               /\ req' = [req EXCEPT ![r] =
                    Finish(Send(Unlinked(q, PathOf(q.imageUrl)), 401, FALSE,
                                "You cannot modify a recipe not created by You!",
                                <<>>))]
          ELSE IF q.imageUrl = Null
          THEN /\ req' = [req EXCEPT ![r] =
                    [q EXCEPT !.pc = "update",
                              !.imageUrl = recipeFound[1].imageUrl]]
               /\ files' = files
          ELSE /\ files' = unlink(files, PathOf(recipeFound[1].imageUrl))
               /\ req' = [req EXCEPT ![r] =
                    [Unlinked(q, PathOf(recipeFound[1].imageUrl))
                       EXCEPT !.pc = "update"]]
  /\ UNCHANGED <<recipes, favorites, nextId>>

\* recipe.update({name, description, ingredients, imageUrl, direction},
\*               {where: {id: recipeId}}) as the store applies it
update(id, q) ==
  IF id \in DOMAIN recipes
  THEN [recipes EXCEPT ![id] =
         [@ EXCEPT !.name = trimWhiteSpaces(q.body.name),
                   !.description = trimWhiteSpaces(q.body.description),
                   !.ingredients = trimWhiteSpaces(q.body.ingredients),
                   !.imageUrl = q.imageUrl,
                   !.direction = q.body.direction]]
  ELSE recipes

\* recipe.update(...) settles, its rejection taken for a result: the
\* favorites query and the notification follow a failed update too
ModifyUpdatedIgnoringFailure(r) ==
  /\ req[r].pc = "update"
  /\ LET q == req[r]
     IN \E ok \in BOOLEAN :
          IF ok
          THEN /\ recipes' = update(q.recipeId, q)
               /\ req' = [req EXCEPT ![r] =
                    [q EXCEPT !.pc = "favorites", !.committed = TRUE]]
          ELSE /\ recipes' = recipes
               /\ req' = [req EXCEPT ![r] = [q EXCEPT !.pc = "favorites"]]
  /\ UNCHANGED <<files, favorites, nextId>>

\* recipe.update(...) settles.  Its promise is not returned to the outer
\* chain: a rejection reaches no handler and the request gets no response.
ModifyUpdated(r) ==
  /\ req[r].pc = "update"
  /\ LET q == req[r]
     IN \E ok \in BOOLEAN :
          IF ok
          THEN /\ recipes' = update(q.recipeId, q)
               /\ req' = [req EXCEPT ![r] =
                    [(IF recipes' # recipes THEN Log(q, "record changed") ELSE q)
                       EXCEPT !.pc = "favorites", !.committed = TRUE,
                              !.result = IF q.recipeId \in DOMAIN recipes
                                         THEN <<recipes'[q.recipeId]>> ELSE <<>>]]
          ELSE /\ recipes' = recipes
               /\ req' = [req EXCEPT ![r] =
                    Finish([q EXCEPT !.storeFailed = TRUE])]
  /\ UNCHANGED <<files, favorites, nextId>>

\* favorite.findAll({where: {recipeId}, include: [User.email]})
FavoritesOf(id) == SelectSeq(favorites, LAMBDA row : row.recipeId = id)

\* foundUsers.map(user => user.User.email)
userEmails(foundUsers) == [i \in 1..Len(foundUsers) |-> Email(foundUsers[i].userId)]

\* notify.default called once too often
notifyTwice(q, emails) == [q EXCEPT !.notified = Append(Append(@, emails), emails)]

\* notify.default(userEmails, subject, body)
notify(q, emails) == [q EXCEPT !.notified = Append(@, emails)]

\* what becomes of the mails notify.default hands to the transport; the
\* handler does not wait for it and never reads it
Deliveries == {"delivered", "failed"}

\* favorite.findAll(...) settles: notify, then the 201 response
ModifyNotified(r) ==
  /\ req[r].pc = "favorites"
  /\ LET q == req[r]
         foundUsers == FavoritesOf(q.recipeId)
     IN \E ok \in BOOLEAN, delivery \in Deliveries :
          req' = [req EXCEPT ![r] =
            IF ok
            THEN Finish(Send(notify([q EXCEPT !.foundUsers = foundUsers,
                                              !.delivery = delivery],
                                    userEmails(foundUsers)),
                             201, TRUE, "Recipe record updated", q.result))
            ELSE Finish([q EXCEPT !.storeFailed = TRUE])]
  /\ UNCHANGED <<recipes, files, favorites, nextId>>

----------------------------------------------------------------------------
(* deleteRecipe *)

\* rows of the Favorites table that survive the cascade of a recipe's delete
Cascade(id) == SelectSeq(favorites, LAMBDA row : row.recipeId # id)

\* recipe.findById(recipeId) settles: the first .then, or the outer .catch
DeleteRecipe(r) ==
  /\ req[r].pc = "idle"
  /\ \E u \in Users, id \in RecipeIds, ok \in BOOLEAN :
       LET q0 == [Idle EXCEPT !.op = "deleteRecipe", !.user = u, !.recipeId = id]
           recipeFound == findById(id)
           q == [q0 EXCEPT !.found = recipeFound]
       IN req' = [req EXCEPT ![r] =
            IF ~ok
            THEN Finish(Send([q0 EXCEPT !.storeFailed = TRUE], 500, FALSE,
                             "Error Deleting Recipe", <<>>))
            ELSE IF recipeFound = <<>>
            THEN Finish(Send(q, 404, FALSE, "No matching recipe", <<>>))
            ELSE IF ~IsOwner(recipeFound[1], u)
            THEN Finish(Send([q EXCEPT !.imageUrl = recipeFound[1].imageUrl],
                             401, FALSE, "You cannot delete this recipe", <<>>))
            ELSE [q EXCEPT !.pc = "destroy",
                           !.imageUrl = recipeFound[1].imageUrl]]
  /\ UNCHANGED <<recipes, files, favorites, nextId>>

\* recipe.destroy({where: {id}}) as the store applies it
destroy(id) == [i \in DOMAIN recipes \ {id} |-> recipes[i]]

\* recipe.destroy(...) settles.  Its promise is not returned to the outer
\* chain either.
DeleteDestroyed(r) ==
  /\ req[r].pc = "destroy"
  /\ LET q == req[r]
     IN \E ok \in BOOLEAN :
          IF ok
          THEN /\ recipes' = destroy(q.recipeId)
               /\ favorites' = Cascade(q.recipeId)
               /\ files' = unlink(files, PathOf(q.imageUrl))
               /\ req' = [req EXCEPT ![r] =
                    Finish(Send(
                      Unlinked(IF recipes' # recipes
                               THEN Log(q, "record destroyed") ELSE q,
                               PathOf(q.imageUrl)),
                      205, TRUE, "Recipe Deleted!", <<>>))]
          ELSE /\ req' = [req EXCEPT ![r] =
                    Finish([q EXCEPT !.storeFailed = TRUE])]
               /\ UNCHANGED <<recipes, favorites, files>>
  /\ UNCHANGED nextId

----------------------------------------------------------------------------
(* getRecipe *)

\* the view count written back from the instance read by findOne
incrementReadModifyWrite(id, recipeFound) ==
  IF id \in DOMAIN recipes
  THEN [recipes EXCEPT ![id].viewCount = recipeFound.viewCount + 1]
  ELSE recipes

\* recipeFound.increment('viewCount'): UPDATE .. SET viewCount = viewCount + 1
\* WHERE id = .., evaluated by the store on the row as it is then
increment(id, recipeFound) ==
  IF id \in DOMAIN recipes
  THEN [recipes EXCEPT ![id].viewCount = @ + 1]
  ELSE recipes

\* recipe.findOne(...) settles: the first .then, or the .catch.  A null
\* recipeFound sends 404 and returns res to the next .then, whose
\* res.reload() throws; the .catch then sends 500.
GetRecipe(r) ==
  /\ req[r].pc = "idle"
  /\ \E id \in RecipeIds, ok \in BOOLEAN :
       LET q == [Idle EXCEPT !.op = "getRecipe", !.recipeId = id]
           recipeFound == findById(id)
       IN req' = [req EXCEPT ![r] =
            IF ~ok
            THEN Finish(Send([q EXCEPT !.storeFailed = TRUE], 500, FALSE,
                             "Unable to fetch recipes", <<>>))
            ELSE IF recipeFound = <<>>
            THEN Finish(Send(Send(q, 404, FALSE, "No matching recipe", <<>>),
                             500, FALSE, "Unable to fetch recipes", <<>>))
            ELSE [q EXCEPT !.pc = "increment", !.found = recipeFound]]
  /\ UNCHANGED <<recipes, files, favorites, nextId>>

\* increment(...) settles: the second .then, or the .catch
GetRecipeIncremented(r) ==
  /\ req[r].pc = "increment"
  /\ LET q == req[r]
     IN \E ok \in BOOLEAN :
          IF ok
          THEN /\ recipes' = increment(q.recipeId, q.found[1])
               /\ req' = [req EXCEPT ![r] =
                    [(IF q.recipeId \in DOMAIN recipes
                      THEN Log(q, "view counted") ELSE q)
                       EXCEPT !.pc = "reload"]]
          ELSE /\ recipes' = recipes
               /\ req' = [req EXCEPT ![r] =
                    Finish(Send([q EXCEPT !.storeFailed = TRUE], 500, FALSE,
                                "Unable to fetch recipes", <<>>))]
  /\ UNCHANGED <<files, favorites, nextId>>

\* reload() settles: the third .then, or the .catch.  Reloading a row that
\* was destroyed meanwhile rejects.
GetRecipeReloaded(r) ==
  /\ req[r].pc = "reload"
  /\ LET q == req[r]
         recipeLoaded == findById(q.recipeId)
     IN \E ok \in BOOLEAN :
          req' = [req EXCEPT ![r] =
            IF ok /\ recipeLoaded # <<>>
            THEN Finish(Send(q, 201, TRUE, "Recipe found", recipeLoaded))
            ELSE Finish(Send([q EXCEPT !.storeFailed = TRUE], 500, FALSE,
                             "Unable to fetch recipes", <<>>))]
  /\ UNCHANGED <<recipes, files, favorites, nextId>>

----------------------------------------------------------------------------
(* getUserRecipes, getAllRecipes *)

\* recipe.findAll({where: {userId}}), or with no where clause when owners
\* is every user: the rows, here as the set of their ids
findAll(owners) == {id \in DOMAIN recipes : recipes[id].userId \in owners}

\* recipe.findAll({where: {userId}}) settles.  foundRecipes is an array, so
\* !foundRecipes is false also when it is empty.
GetUserRecipes(r) ==
  /\ req[r].pc = "idle"
  /\ \E u \in Users, ok \in BOOLEAN :
       LET q == [Idle EXCEPT !.op = "getUserRecipes", !.user = u]
           foundRecipes == findAll({u})
       IN req' = [req EXCEPT ![r] =
            IF ok
            THEN Finish(Send(q, 201, TRUE, "User Recipes found", foundRecipes))
            ELSE Finish(Send([q EXCEPT !.storeFailed = TRUE], 500, FALSE,
                             "Unable to get user recipes", <<>>))]
  /\ UNCHANGED <<recipes, files, favorites, nextId>>

\* the chain with || for && in its first test
SelectStrategyEitherParameter(query) ==
  IF query.sort = "upvotes" \/ query.order = "descending"
  THEN <<"sortMostUpvotes">>
  ELSE IF Truthy(query.ingredients) THEN <<"searchByIngredients">>
  ELSE IF Truthy(query.recipes) THEN <<"searchByName">>
  ELSE IF Truthy(query.search) THEN <<"searchAll">>
  ELSE <<"findAll">>

\* the if / else-if chain of getAllRecipes: the Search methods it calls,
\* "findAll" standing for the else branch
SelectStrategy(query) ==
  IF query.sort = "upvotes" /\ query.order = "descending"
  THEN <<"sortMostUpvotes">>
  ELSE IF Truthy(query.ingredients) THEN <<"searchByIngredients">>
  ELSE IF Truthy(query.recipes) THEN <<"searchByName">>
  ELSE IF Truthy(query.search) THEN <<"searchAll">>
  ELSE <<"findAll">>

\* getAllRecipes up to the query its branch issues
GetAllRecipes(r, query) ==
  /\ req[r].pc = "idle"
  /\ LET strategies == SelectStrategy(query)
     IN req' = [req EXCEPT ![r] =
          [Idle EXCEPT !.op = "getAllRecipes", !.query = query,
                       !.strategies = strategies,
                       !.pc = IF strategies = <<"findAll">>
                              THEN "findAll" ELSE "search"]]
  /\ UNCHANGED <<recipes, files, favorites, nextId>>

\* recipe.findAll({include}) of the else branch settles
AllRecipesFound(r) ==
  /\ req[r].pc = "findAll"
  /\ LET q == req[r]
         foundRecipes == findAll(Users)
     IN \E ok \in BOOLEAN :
          req' = [req EXCEPT ![r] =
            IF ok
            THEN Finish(Send(q, 201, TRUE, "Recipes found", foundRecipes))
            ELSE Finish(Send([q EXCEPT !.storeFailed = TRUE], 500, FALSE,
                             "Unable to fetch recipes", <<>>))]
  /\ UNCHANGED <<recipes, files, favorites, nextId>>

\* the Search method a branch called answers: found, none found, or error
SearchOutcomes == {201, 404, 500}
SearchAnswered(r) ==
  /\ req[r].pc = "search"
  /\ LET q == req[r]
     IN \E status \in SearchOutcomes :
          req' = [req EXCEPT ![r] =
            Finish(Send([q EXCEPT !.storeFailed = (status = 500)], status,
                        status # 500,
                        IF status = 201 THEN "Recipe(s) found"
                        ELSE IF status = 404 THEN "No Stored Recipes found"
                        ELSE "Unable to fetch recipes",
                        IF status = 201 THEN DOMAIN recipes ELSE {}))]
  /\ UNCHANGED <<recipes, files, favorites, nextId>>

----------------------------------------------------------------------------
(* Favorites *)

\* a user favorites a recipe: a row is added to the Favorites table
AddFavorite(u, id) ==
  /\ Len(favorites) < MaxFavRows
  /\ id \in DOMAIN recipes
  /\ favorites' = Append(favorites, [userId |-> u, recipeId |-> id])
  /\ UNCHANGED <<recipes, files, nextId, req>>

----------------------------------------------------------------------------
(* Votes *)

\* the client's upvote(recipeId) / downvote(recipeId): the counter whose
\* route axios.post addresses, `${url}/${recipeId}/upvotes` or /downvotes
VoteRoute(action) == IF action = "upvote" THEN "upvotes" ELSE "downvotes"

\* the counter written back from the instance read by the lookup
applyVoteReadModifyWrite(id, counter, recipeFound) ==
  IF id \in DOMAIN recipes
  THEN [recipes EXCEPT ![id][counter] = recipeFound[counter] + 1]
  ELSE recipes

\* the store's atomic increment of one vote counter of one row
applyVote(id, counter, recipeFound) ==
  IF id \in DOMAIN recipes
  THEN [recipes EXCEPT ![id][counter] = @ + 1]
  ELSE recipes

\* POST /api/v1/recipes/:recipeId/upvotes|downvotes arrives and the lookup
\* of the recipe settles
VoteRecipe(r) ==
  /\ req[r].pc = "idle"
  /\ \E id \in RecipeIds, action \in {"upvote", "downvote"}, ok \in BOOLEAN :
       LET q == [Idle EXCEPT !.op = action, !.recipeId = id,
                             !.vote = VoteRoute(action)]
           recipeFound == findById(id)
       IN req' = [req EXCEPT ![r] =
            IF ~ok
            THEN Finish(Send([q EXCEPT !.storeFailed = TRUE], 500, FALSE,
                             "Unable to vote", <<>>))
            ELSE IF recipeFound = <<>>
            THEN Finish(Send(q, 404, FALSE, "No matching recipe", <<>>))
            ELSE [q EXCEPT !.pc = "vote", !.found = recipeFound]]
  /\ UNCHANGED <<recipes, files, favorites, nextId>>

\* the increment settles
VoteApplied(r) ==
  /\ req[r].pc = "vote"
  /\ LET q == req[r]
     IN \E ok \in BOOLEAN :
          IF ok
          THEN /\ recipes' = applyVote(q.recipeId, q.vote, q.found[1])
               /\ req' = [req EXCEPT ![r] =
                    [(IF q.recipeId \in DOMAIN recipes
                      THEN Log(q, "vote counted") ELSE q)
                       EXCEPT !.pc = "voted"]]
          ELSE /\ recipes' = recipes
               /\ req' = [req EXCEPT ![r] =
                    Finish(Send([q EXCEPT !.storeFailed = TRUE], 500, FALSE,
                                "Unable to vote", <<>>))]
  /\ UNCHANGED <<files, favorites, nextId>>

\* the reload after the increment settles: the response carries the row
VoteAnswered(r) ==
  /\ req[r].pc = "voted"
  /\ LET q == req[r]
         recipeLoaded == findById(q.recipeId)
     IN \E ok \in BOOLEAN :
          req' = [req EXCEPT ![r] =
            IF ok /\ recipeLoaded # <<>>
            THEN Finish(Send(q, 200, TRUE, "Vote recorded", recipeLoaded))
            ELSE Finish(Send([q EXCEPT !.storeFailed = TRUE], 500, FALSE,
                             "Unable to vote", <<>>))]
  /\ UNCHANGED <<recipes, files, favorites, nextId>>

----------------------------------------------------------------------------
(* Specifications *)

Next ==
  \/ \E r \in Req : CreateRecipe(r)
  \/ \E r \in Req : CreateReturned(r)
  \/ \E r \in Req : ModifyRecipe(r)
  \/ \E r \in Req : ModifyFound(r)
  \/ \E r \in Req : ModifyUpdated(r)
  \/ \E r \in Req : ModifyNotified(r)
  \/ \E r \in Req : DeleteRecipe(r)
  \/ \E r \in Req : DeleteDestroyed(r)
  \/ \E r \in Req : GetRecipe(r)
  \/ \E r \in Req : GetRecipeIncremented(r)
  \/ \E r \in Req : GetRecipeReloaded(r)
  \/ \E r \in Req : GetUserRecipes(r)
  \/ \E r \in Req, query \in MainQueries : GetAllRecipes(r, query)
  \/ \E r \in Req : AllRecipesFound(r)
  \/ \E r \in Req : SearchAnswered(r)

\* every handler of the controller, NumReq requests in any interleaving
Spec == Init /\ [][Next]_vars

\* one discovery request, over every combination of query parameters
NextSearch ==
  \/ \E query \in Queries : GetAllRecipes(1, query)
  \/ AllRecipesFound(1)
  \/ SearchAnswered(1)

SpecSearch == Init /\ [][NextSearch]_vars

\* recipe updates while users favorite recipes
NextFav ==
  \/ \E u \in Users, id \in RecipeIds : AddFavorite(u, id)
  \/ \E r \in Req : ModifyRecipe(r)
  \/ \E r \in Req : ModifyFound(r)
  \/ \E r \in Req : ModifyUpdated(r)
  \/ \E r \in Req : ModifyNotified(r)
  \/ \E r \in Req : CreateRecipe(r)
  \/ \E r \in Req : CreateReturned(r)

SpecFav == Init /\ [][NextFav]_vars

\* votes on the stored recipes, NumReq of them in any interleaving, while
\* recipes are created
NextVote ==
  \/ \E r \in Req : VoteRecipe(r)
  \/ \E r \in Req : VoteApplied(r)
  \/ \E r \in Req : VoteAnswered(r)
  \/ \E r \in Req : CreateRecipe(r)
  \/ \E r \in Req : CreateReturned(r)

SpecVote == Init /\ [][NextVote]_vars

----------------------------------------------------------------------------
(* Properties *)

Done(r) == req[r].pc = "done"
RecordEffects == {"record created", "record changed", "record destroyed"}
FileEffects == {"file added", "file removed"}
Statuses(q) == [i \in 1..Len(q.responses) |-> q.responses[i].status]
StartViews(id) == IF id = 1 THEN InitialRecipe.viewCount ELSE 0

\* the requester is not the owner of the recipe its lookup returned
NonOwnerRequest(q) ==
  /\ q.op \in {"modifyRecipe", "deleteRecipe"}
  /\ q.found # <<>>
  /\ q.found[1].userId # q.user

\* the fields of a createRecipe / modifyRecipe request fail validation
FailsValidation(q) ==
  /\ q.op \in {"createRecipe", "modifyRecipe"}
  /\ q.file # "text"
  /\ validateRecipeDetails(trimWhiteSpaces(q.body.name),
                           trimWhiteSpaces(q.body.ingredients),
                           IF q.op = "createRecipe"
                           THEN trimWhiteSpaces(q.body.direction)
                           ELSE q.body.direction) # Null

\* C1: no stored recipe's imageUrl names an image file that has been
\* removed from the image area: an image is unlinked only once the update
\* or destroy that stops referencing it has succeeded.
C1_ReferencedImageKept ==
  \A id \in DOMAIN recipes :
    recipes[id].imageUrl # "null" => recipes[id].imageUrl \in files

\* C2 as stated: every finished modifyRecipe or deleteRecipe request of a
\* user who is not the stored recipe's owner has ended with the single
\* response 401 (requests that met a store failure left aside).
C2_NonOwnerAlwaysUnauthorized ==
  \A r \in Req :
    LET q == req[r]
    IN (/\ Done(r)
        /\ q.op \in {"modifyRecipe", "deleteRecipe"}
        /\ ~q.storeFailed
        /\ q.recipeId \in DOMAIN recipes
        /\ recipes[q.recipeId].userId # q.user)
       => Statuses(q) = <<401>>

\* C2 amended: a modifyRecipe or deleteRecipe request whose lookup returned
\* a recipe owned by another user ends right there with the single response
\* 401, success = false, and the request itself creates, changes and
\* destroys no stored record.
C2_NonOwnerUnauthorized ==
  \A r \in Req :
    LET q == req[r]
    IN NonOwnerRequest(q)
       => /\ Done(r)
          /\ Statuses(q) = <<401>>
          /\ ~q.responses[1].success
          /\ q.effects \cap RecordEffects = {}
          /\ ~q.committed

C2_Witness ==
  \E r1, r2 \in Req :
    /\ req[r1].op = "modifyRecipe" /\ NonOwnerRequest(req[r1])
    /\ req[r2].op = "deleteRecipe" /\ NonOwnerRequest(req[r2])
    /\ Statuses(req[r1]) = <<401>> /\ Statuses(req[r2]) = <<401>>
    /\ 1 \in DOMAIN recipes /\ recipes[1] = InitialRecipe

\* C3: a request has dispatched a notification only if it is a modifyRecipe
\* whose fields passed validation, whose lookup found the recipe, whose
\* requester owns it and whose store update has already succeeded.
C3_NotifyOnlyAfterUpdate ==
  \A r \in Req :
    LET q == req[r]
    IN q.notified # <<>>
       => /\ q.op = "modifyRecipe"
          /\ q.committed
          /\ ~q.storeFailed
          /\ ~FailsValidation(q) /\ q.file # "text"
          /\ q.found # <<>> /\ q.found[1].userId = q.user
          /\ \A i \in 1..Len(q.responses) : q.responses[i].status = 201

C3_Witness ==
  \E r \in Req :
    /\ req[r].notified # <<>>
    /\ req[r].committed
    /\ req[r].recipeId \in DOMAIN recipes
    /\ recipes[req[r].recipeId].name = trimWhiteSpaces(req[r].body.name)

\* C4 as stated: every finished modifyRecipe whose store update succeeded
\* has dispatched exactly one notification.
C4_EveryUpdateNotifies ==
  \A r \in Req :
    (Done(r) /\ req[r].committed) => Len(req[r].notified) = 1

\* C4 amended: a modifyRecipe whose store update and favorites query both
\* succeeded has dispatched exactly one notification when it ends, one whose
\* favorites query failed has dispatched none, no request dispatches more
\* than one, and the other handlers never dispatch.
C4_OneNotificationPerUpdate ==
  \A r \in Req :
    LET q == req[r]
    IN /\ Len(q.notified) <= 1
       /\ q.op # "modifyRecipe" => q.notified = <<>>
       /\ (Done(r) /\ q.committed /\ ~q.storeFailed) => Len(q.notified) = 1
       /\ (Done(r) /\ q.committed /\ q.storeFailed) => q.notified = <<>>

C4_Witness ==
  \E r1, r2 \in Req :
    /\ Done(r1) /\ req[r1].committed /\ Len(req[r1].notified) = 1
    /\ Done(r2) /\ req[r2].op = "createRecipe"
    /\ Statuses(req[r2]) = <<201>> /\ req[r2].notified = <<>>

\* C5: a request that ended after one of its store operations failed has
\* sent exactly one response, with success = false and a message.
C5_StoreFailureAnswered ==
  \A r \in Req :
    (Done(r) /\ req[r].storeFailed)
    => /\ Len(req[r].responses) = 1
       /\ ~req[r].responses[1].success
       /\ req[r].responses[1].message # ""

\* C6: a request rejected by validation or by the ownership check has added
\* and removed no file of the image area and has created, changed and
\* destroyed no store record.
C6_RejectionWithoutEffects ==
  \A r \in Req :
    (Done(r) /\ (FailsValidation(req[r]) \/ NonOwnerRequest(req[r])))
    => req[r].effects \cap (RecordEffects \cup FileEffects) = {}

\* C7: getAllRecipes calls exactly one strategy, the first whose condition
\* holds in the order Most-Upvoted (sort = upvotes and order = descending),
\* Ingredient, Name, Keyword, Default.
C7_FirstMatchingStrategy ==
  \A r \in Req :
    LET q == req[r]
        mostUpvoted == q.query.sort = "upvotes" /\ q.query.order = "descending"
        ingredient == q.query.ingredients \notin {Null, ""}
        byName == q.query.recipes \notin {Null, ""}
        keyword == q.query.search \notin {Null, ""}
        called(s) == \E i \in 1..Len(q.strategies) : q.strategies[i] = s
    IN q.op = "getAllRecipes"
       => /\ Len(q.strategies) = 1
          /\ called("sortMostUpvotes") <=> mostUpvoted
          /\ called("searchByIngredients") <=> (~mostUpvoted /\ ingredient)
          /\ called("searchByName") <=> (~mostUpvoted /\ ~ingredient /\ byName)
          /\ called("searchAll")
               <=> (~mostUpvoted /\ ~ingredient /\ ~byName /\ keyword)
          /\ called("findAll")
               <=> (~mostUpvoted /\ ~ingredient /\ ~byName /\ ~keyword)
          /\ (q.query.sort = "upvotes" /\ q.query.order # "descending")
               => ~called("sortMostUpvotes")

C7_Witness ==
  \E r \in Req :
    /\ Done(r)
    /\ req[r].query.sort = "upvotes" /\ req[r].query.order = "descending"
    /\ req[r].query.search = "foo"
    /\ req[r].strategies = <<"sortMostUpvotes">>

\* C8: the recipient list of a dispatched notification holds no address
\* more than once.
C8_RecipientsDistinct ==
  \A r \in Req :
    \A n \in 1..Len(req[r].notified) :
      LET emails == req[r].notified[n]
      IN \A i, j \in 1..Len(emails) : emails[i] = emails[j] => i = j

\* C9: the number of recipients of a dispatched notification is the number
\* of distinct users who had favorited the updated recipe when the favorites
\* query ran, and every recipient is one of them.
C9_RecipientsAreTheFavoriters ==
  \A r \in Req :
    LET q == req[r]
        favoriters == {q.foundUsers[i].userId : i \in 1..Len(q.foundUsers)}
    IN \A n \in 1..Len(q.notified) :
         /\ Len(q.notified[n]) = Cardinality(favoriters)
         /\ \A i \in 1..Len(q.notified[n]) :
              \E u \in favoriters : q.notified[n][i] = Email(u)
         /\ \A i \in 1..Len(q.foundUsers) :
              q.foundUsers[i].recipeId = q.recipeId

\* C10: the stored viewCount of every recipe is its starting value plus the
\* number of getRecipe requests whose increment of that recipe has completed,
\* whatever their interleaving, and a getRecipe success response carries the
\* record as read after the request's own increment.
C10_ViewCountExact ==
  /\ \A id \in DOMAIN recipes :
       recipes[id].viewCount =
         StartViews(id)
         + Cardinality({r \in Req : /\ req[r].op = "getRecipe"
                                    /\ req[r].recipeId = id
                                    /\ "view counted" \in req[r].effects})
  /\ \A r \in Req :
       LET q == req[r]
       IN (q.op = "getRecipe" /\ Done(r) /\ Statuses(q) = <<201>>)
          => /\ "view counted" \in q.effects
             /\ q.responses[1].recipe # <<>>
             /\ q.responses[1].recipe[1].viewCount >= q.found[1].viewCount + 1
             /\ q.recipeId \in DOMAIN recipes
                  => q.responses[1].recipe[1].viewCount
                       <= recipes[q.recipeId].viewCount

\* two views of recipe 1 that both read it before either increment
C10_Witness ==
  \E r1, r2 \in Req :
    /\ r1 # r2
    /\ \A r \in {r1, r2} :
         /\ req[r].op = "getRecipe" /\ req[r].recipeId = 1
         /\ Done(r) /\ Statuses(req[r]) = <<201>>
         /\ req[r].found[1].viewCount = StartViews(1)
    /\ recipes[1].viewCount = StartViews(1) + 2

StartVotes(id, counter) ==
  IF id = 1 THEN InitialRecipe[counter] ELSE DefaultVotes
VotesCounted(id, action) ==
  Cardinality({r \in Req : /\ req[r].op = action
                           /\ req[r].recipeId = id
                           /\ "vote counted" \in req[r].effects})

\* C11: in every interleaving the upvote count of every recipe is its
\* starting value plus the number of upvote requests on it whose increment
\* has completed and is changed by nothing else, the downvote count likewise
\* for downvote requests, and neither count is ever negative.
C11_VotesExact ==
  \A id \in DOMAIN recipes :
    /\ recipes[id].upvotes = StartVotes(id, "upvotes") + VotesCounted(id, "upvote")
    /\ recipes[id].downvotes
         = StartVotes(id, "downvotes") + VotesCounted(id, "downvote")
    /\ recipes[id].upvotes >= 0
    /\ recipes[id].downvotes >= 0

\* NumReq upvotes of recipe 1 that all read it before any increment
C11_Witness ==
  /\ \A r \in Req :
       /\ req[r].op = "upvote" /\ req[r].recipeId = 1
       /\ Done(r) /\ Statuses(req[r]) = <<200>>
       /\ req[r].found[1].upvotes = StartVotes(1, "upvotes")
  /\ recipes[1].upvotes = StartVotes(1, "upvotes") + NumReq
  /\ recipes[1].downvotes = StartVotes(1, "downvotes")

\* C12: a modifyRecipe whose store update succeeded ends with the single
\* success response 201 'Recipe record updated', whatever becomes of the
\* notification, and its update stays committed.
C12_UpdateAnsweredWithSuccess ==
  \A r \in Req :
    (Done(r) /\ req[r].committed)
    => /\ Statuses(req[r]) = <<201>>
       /\ req[r].responses[1].success
       /\ req[r].responses[1].message = "Recipe record updated"

\* C13: no request sends more than one response.
C13_AtMostOneResponse ==
  \A r \in Req : Len(req[r].responses) <= 1

====
